---- MODULE Spec2Model ----
(***************************************************************************)
(* SharedProcess (electron-main): lazy creation of the shared process      *)
(* window behind the spawn barrier, the ipc-ready / init-done handshake,   *)
(* message-port connections and shutdown.                                  *)
(*                                                                         *)
(* The main process is single-threaded.  Every action below is one         *)
(* synchronous run of code: a public method up to its first `await`, the   *)
(* continuation after an `await`, an ipcMain listener, a timer callback.   *)
(* Promise continuations are microtasks: events delivered by the event     *)
(* loop (ipc messages, timers, window events) run only when no             *)
(* continuation is runnable.  Public methods may be called by other main   *)
(* process code at any point.                                              *)
(***************************************************************************)
EXTENDS Integers, Sequences, FiniteSets, TLC

\* ---- bounds of the model ------------------------------------------------
MaxCalls == 2        \* connect() + toggle() + channel requests in one run
MaxSpawn == 2        \* spawn() calls in one run
MaxShutdown == 2     \* onWillShutdown() triggers in one run
MaxSecretCalls == 2  \* get / set / delete calls on ExtensionSecrets in one run
MaxEvents == 2       \* onDidChangePassword events in one run

CallIds == 1..MaxCalls

\* ---- environments (NodeJS.ProcessEnv) -----------------------------------
BaseEnv == [FOO |-> "0", BAR |-> "0"]
OverlayKeys == {"FOO"}
OverlayVals == {"1", "2"}
Overlays == UNION {[D -> OverlayVals] : D \in SUBSET OverlayKeys}

\* a spread in which the left object wins
Spread_LeftWins(a, b) ==
    [k \in (DOMAIN a) \cup (DOMAIN b) |-> IF k \in DOMAIN a THEN a[k] ELSE b[k]]

\* { ...a, ...b }
Spread(a, b) ==
    [k \in (DOMAIN a) \cup (DOMAIN b) |-> IF k \in DOMAIN b THEN b[k] ELSE a[k]]

\* ---- extension secrets ---------------------------------------------------
\* the ExtensionSecrets objects and the _id of each (ExtensionIdentifier.toKey
\* of its extension); "pub.c" is an extension that has no facade here
Facades == {"f1", "f2"}
_id == [f \in Facades |-> IF f = "f1" THEN "pub.a" ELSE "pub.b"]
ExtensionIds == {"pub.a", "pub.b", "pub.c"}
SecretKeys == {"k1", "k2"}
SecretValues == {"x"}

\* the passwords stored when the facades are constructed
StoredAtStart ==
    [e \in ExtensionIds |-> [k \in SecretKeys |-> IF e = "pub.c" THEN "other" ELSE "undefined"]]

VARIABLES
    opened,               \* whenSpawnedBarrier is open
    userEnv,              \* this.userEnv
    window,               \* this.window: "undefined" or "set"
    windowCloseListener,  \* this.windowCloseListener is defined
    _whenReady,           \* "undefined", "pending" (init-done listener armed), "resolved"
    _whenIpcReady,        \* "undefined", "barrier", "ipc" (ipc-ready listener armed), "resolved"
    host,                 \* the BrowserWindow object and the worker inside it
    emitted,              \* signals the worker has sent: "none", "ipc", "init"
    calls,                \* connect() / toggle() calls and channel requests
    channels,             \* message channels created so far
    sent,                 \* results posted to the senders of channel requests
    timers,               \* pending setTimeout(0) callbacks, FIFO
    spawns,               \* spawn() calls so far
    overlays,             \* the argument of each spawn() call, in call order
    shutdowns,            \* onWillShutdown() calls so far
    createCount,          \* runs of createWindow()
    listenerRegs,         \* runs of registerWindowListeners() that registered
    cleared,              \* the deferred close tick has cleared this.window
    log,                  \* shutdown steps in the order they happened
    secretState,          \* ExtHostSecretState: the stored passwords
    requests,             \* calls the facades have made into ExtHostSecretState
    events,               \* onDidChangePassword events of ExtHostSecretState
    fired                 \* onDidChange events fired by each ExtensionSecrets

vars == <<opened, userEnv, window, windowCloseListener, _whenReady, _whenIpcReady,
          host, emitted, calls, channels, sent, timers, spawns, overlays, shutdowns,
          createCount, listenerRegs, cleared, log,
          secretState, requests, events, fired>>

\* variables of the coordinator object, the window, and the bookkeeping
gateVars == <<opened, userEnv, spawns, overlays>>
winVars == <<window, windowCloseListener, host, createCount, listenerRegs>>
shutVars == <<timers, shutdowns, cleared, log>>
secVars == <<secretState, requests, events, fired>>

NoHost ==
    [destroyed |-> FALSE, visible |-> FALSE, devTools |-> FALSE, veto |-> 0,
     config |-> [windowId |-> 0, userEnv |-> BaseEnv], ports |-> <<>>, exits |-> 0]

NoCall == [kind |-> "none", pc |-> "none", port |-> 0,
           gate |-> FALSE, sig |-> "none", torn |-> FALSE]

Init ==
    /\ opened = FALSE
    /\ userEnv = BaseEnv
    /\ window = "undefined"
    /\ windowCloseListener = FALSE
    /\ _whenReady = "undefined"
    /\ _whenIpcReady = "undefined"
    /\ host = NoHost
    /\ emitted = "none"
    /\ calls = [c \in CallIds |-> NoCall]
    /\ channels = 0
    /\ sent = {}
    /\ timers = <<>>
    /\ spawns = 0
    /\ overlays = <<>>
    /\ shutdowns = 0
    /\ createCount = 0
    /\ listenerRegs = 0
    /\ cleared = FALSE
    /\ log = <<>>
    /\ secretState = StoredAtStart
    /\ requests = <<>>
    /\ events = <<>>
    /\ fired = [f \in Facades |-> <<>>]

\* ---- helpers -------------------------------------------------------------

\* the window object exists and has not been closed
Alive == createCount > 0 /\ ~host.destroyed

\* the next unused call slot
IsNext(c) ==
    /\ calls[c].kind = "none"
    /\ \A d \in CallIds : d < c => calls[d].kind # "none"

\* a call as it starts, with the situation it starts in
NewCall(k, p) ==
    [kind |-> k, pc |-> p, port |-> 0,
     gate |-> opened, sig |-> emitted, torn |-> cleared]

\* the body of whenIpcReady without the wait on the barrier
BarrierPassed_NoWait == TRUE

\* `await this.whenSpawnedBarrier.wait()` has completed
BarrierPassed == opened

\* a wait that ends when the window exists, before ipc-ready
IpcReadyAwaited_WindowOnly == _whenIpcReady \in {"ipc", "resolved"}

\* `await this.whenIpcReady` has completed
IpcReadyAwaited == _whenIpcReady = "resolved"

\* a promise continuation is ready to run (microtask queue not empty)
MicrotaskPending ==
    \/ _whenIpcReady = "barrier" /\ BarrierPassed
    \/ \E c \in CallIds :
        \/ calls[c].pc = "awaitIpc" /\ IpcReadyAwaited
        \/ calls[c].pc = "awaitReady" /\ _whenReady = "resolved"
        \/ calls[c].pc = "connected"

\* a close listener that does not prevent the default
EmitClose_NoVeto(h) ==
    [h EXCEPT !.destroyed = TRUE, !.visible = FALSE, !.devTools = FALSE]

\* the window receives a 'close' event: the listeners run, and unless one
\* of them prevented the default the window closes
EmitClose(h) ==
    IF h.veto > 0
    THEN [h EXCEPT !.visible = IF window = "set" THEN FALSE ELSE @]
    ELSE [h EXCEPT !.destroyed = TRUE, !.visible = FALSE, !.devTools = FALSE]

\* ---- whenReady / whenIpcReady -------------------------------------------

\* whenReady(): memoized promise, the init-done listener is armed on first call
WhenReadyGet(p) == IF p = "undefined" THEN "pending" ELSE p

\* a getter that does not memoize: every access starts the body again
WhenIpcReadyGet_NoMemo(p) == IF p = "barrier" THEN p ELSE "barrier"

\* get whenIpcReady: memoized; the first access starts the async body, which
\* suspends at `await this.whenSpawnedBarrier.wait()`
WhenIpcReadyGet(p) == IF p = "undefined" THEN "barrier" ELSE p

\* whenReady() called by other main process code
whenReady ==
    /\ _whenReady' = WhenReadyGet(_whenReady)
    /\ UNCHANGED <<secVars, gateVars, winVars, shutVars, _whenIpcReady, emitted, calls, channels, sent>>

\* createWindow(): the new hidden BrowserWindow, loaded with the config
createWindow ==
    [NoHost EXCEPT !.config = [windowId |-> createCount + 1, userEnv |-> userEnv]]

\* registerWindowListeners(): the close listener that vetoes the close
registerWindowListeners(h) == [h EXCEPT !.veto = @ + 1]

\* body of whenIpcReady after the barrier: createWindow(),
\* registerWindowListeners(), then wait for ipc-ready
whenIpcReady ==
    /\ _whenIpcReady = "barrier"
    /\ BarrierPassed
    /\ window' = "set"
    /\ createCount' = createCount + 1
    /\ windowCloseListener' = TRUE
    /\ listenerRegs' = listenerRegs + 1
    /\ host' = registerWindowListeners(createWindow)
    /\ _whenIpcReady' = "ipc"
    /\ UNCHANGED <<secVars, gateVars, shutVars, _whenReady, emitted, calls, channels, sent>>

\* a spawn() whose environment the window configuration follows
spawn_LiveConfig(env) ==
    /\ spawns < MaxSpawn
    /\ spawns' = spawns + 1
    /\ overlays' = Append(overlays, [env |-> env, created |-> createCount > 0])
    /\ userEnv' = Spread(userEnv, env)
    /\ opened' = TRUE
    /\ host' = IF createCount > 0
               THEN [host EXCEPT !.config.userEnv = Spread(userEnv, env)]
               ELSE host
    /\ UNCHANGED <<secVars, window, windowCloseListener, createCount, listenerRegs, shutVars,
                   _whenReady, _whenIpcReady, emitted, calls, channels, sent>>

\* a spawn() that puts a new, closed barrier in place when called again
spawn_NewBarrier(env) ==
    /\ spawns < MaxSpawn
    /\ spawns' = spawns + 1
    /\ overlays' = Append(overlays, [env |-> env, created |-> createCount > 0])
    /\ userEnv' = Spread(userEnv, env)
    /\ opened' = ~opened
    /\ UNCHANGED <<secVars, winVars, shutVars, _whenReady, _whenIpcReady, emitted, calls, channels, sent>>

\* spawn(userEnv)
spawn(env) ==
    /\ spawns < MaxSpawn
    /\ spawns' = spawns + 1
    /\ overlays' = Append(overlays, [env |-> env, created |-> createCount > 0])
    /\ userEnv' = Spread(userEnv, env)
    /\ opened' = TRUE
    /\ UNCHANGED <<secVars, winVars, shutVars, _whenReady, _whenIpcReady, emitted, calls, channels, sent>>

\* ---- worker signals ------------------------------------------------------

\* the worker sends 'vscode:shared-process->electron-main=ipc-ready'; the
\* once-listener of whenIpcReady, if armed, resolves the promise
ipcReady ==
    /\ ~MicrotaskPending
    /\ Alive
    /\ emitted = "none"
    /\ emitted' = "ipc"
    /\ _whenIpcReady' = IF _whenIpcReady = "ipc" THEN "resolved" ELSE _whenIpcReady
    /\ UNCHANGED <<secVars, gateVars, winVars, shutVars, _whenReady, calls, channels, sent>>

\* the worker sends 'vscode:shared-process->electron-main=init-done'; the
\* once-listener of whenReady(), if armed, resolves the promise
initDone ==
    /\ ~MicrotaskPending
    /\ Alive
    /\ emitted = "ipc"
    /\ emitted' = "init"
    /\ _whenReady' = IF _whenReady = "pending" THEN "resolved" ELSE _whenReady
    /\ UNCHANGED <<secVars, gateVars, winVars, shutVars, _whenIpcReady, calls, channels, sent>>

\* ---- connect / toggle ----------------------------------------------------

\* connect(): up to `await this.whenIpcReady`
connect(c) ==
    /\ IsNext(c)
    /\ calls' = [calls EXCEPT ![c] = NewCall("connect", "awaitIpc")]
    /\ _whenIpcReady' = WhenIpcReadyGet(_whenIpcReady)
    /\ UNCHANGED <<secVars, gateVars, winVars, shutVars, _whenReady, emitted, channels, sent>>

\* a health check that looks at the handle only
HostUnavailable_HandleOnly == window = "undefined"

\* !this.window || this.window.webContents.isDestroyed()
HostUnavailable == window = "undefined" \/ host.destroyed

\* connectMessagePort(window): a new channel, one end goes to the window
connectMessagePort(h) == [h EXCEPT !.ports = Append(@, channels + 1)]

\* a connect() that keeps the first port and hands it out again
connectResumed_Cached(c) ==
    /\ calls[c].pc = "awaitIpc"
    /\ calls[c].kind \in {"connect", "request"}
    /\ IpcReadyAwaited
    /\ IF HostUnavailable
       THEN /\ calls' = [calls EXCEPT ![c].pc =
                            IF calls[c].kind = "connect" THEN "failed" ELSE "rejected"]
            /\ UNCHANGED <<host, channels>>
       ELSE /\ host' = IF channels = 0 THEN connectMessagePort(host) ELSE host
            /\ channels' = IF channels = 0 THEN 1 ELSE channels
            /\ calls' = [calls EXCEPT
                            ![c].pc = IF calls[c].kind = "connect" THEN "returned" ELSE "connected",
                            ![c].port = 1]
    /\ UNCHANGED <<secVars, gateVars, shutVars, window, windowCloseListener, createCount,
                   listenerRegs, _whenReady, _whenIpcReady, emitted, sent>>

\* connect() after `await this.whenIpcReady`, called directly or by the
\* channel request handler
connectResumed(c) ==
    /\ calls[c].pc = "awaitIpc"
    /\ calls[c].kind \in {"connect", "request"}
    /\ IpcReadyAwaited
    /\ IF HostUnavailable
       THEN /\ calls' = [calls EXCEPT ![c].pc =
                            IF calls[c].kind = "connect" THEN "failed" ELSE "rejected"]
            /\ UNCHANGED <<host, channels>>
       ELSE /\ host' = connectMessagePort(host)
            /\ channels' = channels + 1
            /\ calls' = [calls EXCEPT
                            ![c].pc = IF calls[c].kind = "connect" THEN "returned" ELSE "connected",
                            ![c].port = channels + 1]
    /\ UNCHANGED <<secVars, gateVars, shutVars, window, windowCloseListener, createCount,
                   listenerRegs, _whenReady, _whenIpcReady, emitted, sent>>

\* toggle(): up to `await this.whenIpcReady`
toggle(c) ==
    /\ IsNext(c)
    /\ calls' = [calls EXCEPT ![c] = NewCall("toggle", "awaitIpc")]
    /\ _whenIpcReady' = WhenIpcReadyGet(_whenIpcReady)
    /\ UNCHANGED <<secVars, gateVars, winVars, shutVars, _whenReady, emitted, channels, sent>>

\* toggle() after `await this.whenIpcReady`; calling into a closed
\* BrowserWindow throws
toggleResumed(c) ==
    /\ calls[c].pc = "awaitIpc"
    /\ calls[c].kind = "toggle"
    /\ IpcReadyAwaited
    /\ IF window = "undefined"
       THEN /\ calls' = [calls EXCEPT ![c].pc = "done"]
            /\ UNCHANGED host
       ELSE IF host.destroyed
       THEN /\ calls' = [calls EXCEPT ![c].pc = "failed"]
            /\ UNCHANGED host
       ELSE /\ calls' = [calls EXCEPT ![c].pc = "done"]
            /\ host' = IF host.visible
                       THEN [host EXCEPT !.devTools = FALSE, !.visible = FALSE]
                       ELSE [host EXCEPT !.visible = TRUE, !.devTools = TRUE]
    /\ UNCHANGED <<secVars, gateVars, shutVars, window, windowCloseListener, createCount,
                   listenerRegs, _whenReady, _whenIpcReady, emitted, channels, sent>>

\* ---- 'vscode:createSharedProcessMessageChannel' --------------------------

\* the listener up to `await this.whenReady()`; the nonce is the call id
onCreateMessageChannel(c) ==
    /\ ~MicrotaskPending
    /\ IsNext(c)
    /\ calls' = [calls EXCEPT ![c] = NewCall("request", "awaitReady")]
    /\ _whenReady' = WhenReadyGet(_whenReady)
    /\ UNCHANGED <<secVars, gateVars, winVars, shutVars, _whenIpcReady, emitted, channels, sent>>

\* after `await this.whenReady()`: this.connect() up to its await
onCreateMessageChannelReady(c) ==
    /\ calls[c].pc = "awaitReady"
    /\ _whenReady = "resolved"
    /\ calls' = [calls EXCEPT ![c].pc = "awaitIpc"]
    /\ _whenIpcReady' = WhenIpcReadyGet(_whenIpcReady)
    /\ UNCHANGED <<secVars, gateVars, winVars, shutVars, _whenReady, emitted, channels, sent>>

\* after `await this.connect()`: e.sender.postMessage(..., nonce, [port])
onCreateMessageChannelResult(c) ==
    /\ calls[c].pc = "connected"
    /\ calls' = [calls EXCEPT ![c].pc = "done"]
    /\ sent' = sent \cup {[nonce |-> c, port |-> calls[c].port]}
    /\ UNCHANGED <<secVars, gateVars, winVars, shutVars, _whenReady, _whenIpcReady, emitted, channels>>

\* ---- shutdown ------------------------------------------------------------

\* an onWillShutdown() that leaves the close listener on the window
onWillShutdown_KeepVeto ==
    /\ shutdowns < MaxShutdown
    /\ shutdowns' = shutdowns + 1
    /\ IF window = "undefined"
       THEN UNCHANGED <<host, windowCloseListener, timers, log>>
       ELSE LET n == shutdowns + 1
                exit == ~host.destroyed
                h1 == IF exit THEN [host EXCEPT !.exits = @ + 1] ELSE host
                l1 == IF exit THEN Append(log, [ev |-> "exit", n |-> n, veto |-> host.veto]) ELSE log
            IN  /\ host' = h1
                /\ windowCloseListener' = windowCloseListener
                /\ timers' = Append(timers, n)
                /\ log' = l1
    /\ UNCHANGED <<secVars, gateVars, window, createCount, listenerRegs, cleared,
                   _whenReady, _whenIpcReady, emitted, calls, channels, sent>>

\* an onWillShutdown() without the early return for a missing window
onWillShutdown_NoEarlyReturn ==
    /\ shutdowns < MaxShutdown
    /\ shutdowns' = shutdowns + 1
    /\ LET n == shutdowns + 1
           exit == ~host.destroyed
           removed == windowCloseListener
           h1 == IF exit THEN [host EXCEPT !.exits = @ + 1] ELSE host
           h2 == IF removed THEN [h1 EXCEPT !.veto = @ - 1] ELSE h1
           l1 == IF exit THEN Append(log, [ev |-> "exit", n |-> n, veto |-> host.veto]) ELSE log
           l2 == IF removed THEN Append(l1, [ev |-> "unveto", n |-> n, veto |-> h2.veto]) ELSE l1
       IN  /\ host' = h2
           /\ windowCloseListener' = FALSE
           /\ timers' = Append(timers, n)
           /\ log' = l2
    /\ UNCHANGED <<secVars, gateVars, window, createCount, listenerRegs, cleared,
                   _whenReady, _whenIpcReady, emitted, calls, channels, sent>>

\* onWillShutdown(): signal exit, remove the veto, defer the close
onWillShutdown ==
    /\ shutdowns < MaxShutdown
    /\ shutdowns' = shutdowns + 1
    /\ IF window = "undefined"
       THEN UNCHANGED <<host, windowCloseListener, timers, log>>
       ELSE LET n == shutdowns + 1
                exit == ~host.destroyed
                removed == windowCloseListener
                h1 == IF exit THEN [host EXCEPT !.exits = @ + 1] ELSE host
                h2 == IF removed THEN [h1 EXCEPT !.veto = @ - 1] ELSE h1
                l1 == IF exit THEN Append(log, [ev |-> "exit", n |-> n, veto |-> host.veto]) ELSE log
                l2 == IF removed THEN Append(l1, [ev |-> "unveto", n |-> n, veto |-> h2.veto]) ELSE l1
            IN  /\ host' = h2
                /\ windowCloseListener' = FALSE
                /\ timers' = Append(timers, n)
                /\ log' = l2
    /\ UNCHANGED <<secVars, gateVars, window, createCount, listenerRegs, cleared,
                   _whenReady, _whenIpcReady, emitted, calls, channels, sent>>

\* a timer callback without the try/catch: an error of window.close() leaves
\* the callback before the handle is cleared
closeTick_Propagate ==
    /\ ~MicrotaskPending
    /\ timers # <<>>
    /\ \E threw \in BOOLEAN :
        /\ host' = IF threw THEN host ELSE IF host.destroyed THEN host ELSE EmitClose(host)
        /\ log' = Append(log, [ev |-> IF threw THEN "closeThrew" ELSE "close",
                                n |-> Head(timers), veto |-> host.veto])
        /\ window' = IF threw THEN window ELSE "undefined"
        /\ cleared' = IF threw THEN cleared ELSE TRUE
    /\ timers' = Tail(timers)
    /\ UNCHANGED <<secVars, gateVars, windowCloseListener, createCount, listenerRegs, shutdowns,
                   _whenReady, _whenIpcReady, emitted, calls, channels, sent>>

\* the setTimeout(0) callback: window.close() on the captured window, which
\* may throw; then this.window = undefined
closeTick ==
    /\ ~MicrotaskPending
    /\ timers # <<>>
    /\ \E threw \in BOOLEAN :
        /\ host' = IF threw THEN host ELSE IF host.destroyed THEN host ELSE EmitClose(host)
        /\ log' = Append(log, [ev |-> IF threw THEN "closeThrew" ELSE "close",
                                n |-> Head(timers), veto |-> host.veto])
    /\ timers' = Tail(timers)
    /\ window' = "undefined"
    /\ cleared' = TRUE
    /\ UNCHANGED <<secVars, gateVars, windowCloseListener, createCount, listenerRegs, shutdowns,
                   _whenReady, _whenIpcReady, emitted, calls, channels, sent>>

\* the window is asked to close from outside (user, operating system, app quit)
closeRequested ==
    /\ ~MicrotaskPending
    /\ Alive
    /\ host' = EmitClose(host)
    /\ UNCHANGED <<secVars, gateVars, shutVars, window, windowCloseListener, createCount,
                   listenerRegs, _whenReady, _whenIpcReady, emitted, calls, channels, sent>>

\* ---- specification -------------------------------------------------------

Next ==
    \/ whenReady
    \/ whenIpcReady
    \/ \E env \in Overlays : spawn(env)
    \/ ipcReady
    \/ initDone
    \/ \E c \in CallIds : connect(c)
    \/ \E c \in CallIds : connectResumed(c)
    \/ \E c \in CallIds : toggle(c)
    \/ \E c \in CallIds : toggleResumed(c)
    \/ \E c \in CallIds : onCreateMessageChannel(c)
    \/ \E c \in CallIds : onCreateMessageChannelReady(c)
    \/ \E c \in CallIds : onCreateMessageChannelResult(c)
    \/ onWillShutdown
    \/ closeTick
    \/ closeRequested

Spec == Init /\ [][Next]_vars

\* the event loop runs every runnable continuation and every due timer, and
\* a worker whose window is open sends its next signal
Continuations ==
    \/ whenIpcReady
    \/ \E c \in CallIds : connectResumed(c)
    \/ \E c \in CallIds : toggleResumed(c)
    \/ \E c \in CallIds : onCreateMessageChannelReady(c)
    \/ \E c \in CallIds : onCreateMessageChannelResult(c)

FairSpec ==
    /\ Spec
    /\ WF_vars(Continuations)
    /\ WF_vars(closeTick)
    /\ WF_vars(ipcReady)
    /\ WF_vars(initDone)

\* ---- ExtensionSecrets ----------------------------------------------------

spVars == <<opened, userEnv, window, windowCloseListener, _whenReady, _whenIpcReady,
            host, emitted, calls, channels, sent, timers, spawns, overlays, shutdowns,
            createCount, listenerRegs, cleared, log>>

\* ExtHostSecretState.get / set / delete on the stored passwords
SecretStateGet(st, extensionId, key) == st[extensionId][key]
SecretStateSet(st, extensionId, key, value) == [st EXCEPT ![extensionId][key] = value]
SecretStateDelete(st, extensionId, key) == [st EXCEPT ![extensionId][key] = "undefined"]

\* get(key): this._secretState.get(this._id, key)
get(f, key) ==
    /\ Len(requests) < MaxSecretCalls
    /\ requests' = Append(requests,
          [facade |-> f, op |-> "get", extensionId |-> _id[f], key |-> key,
           value |-> SecretStateGet(secretState, _id[f], key)])
    /\ UNCHANGED <<spVars, secretState, events, fired>>

\* set(key, value): this._secretState.set(this._id, key, value)
set(f, key, value) ==
    /\ Len(requests) < MaxSecretCalls
    /\ requests' = Append(requests,
          [facade |-> f, op |-> "set", extensionId |-> _id[f], key |-> key, value |-> value])
    /\ secretState' = SecretStateSet(secretState, _id[f], key, value)
    /\ UNCHANGED <<spVars, events, fired>>

\* delete(key): this._secretState.delete(this._id, key)
delete(f, key) ==
    /\ Len(requests) < MaxSecretCalls
    /\ requests' = Append(requests,
          [facade |-> f, op |-> "delete", extensionId |-> _id[f], key |-> key,
           value |-> "undefined"])
    /\ secretState' = SecretStateDelete(secretState, _id[f], key)
    /\ UNCHANGED <<spVars, events, fired>>

\* a listener that passes every password change on
Listener_NoFilter(f, e) == Append(fired[f], [key |-> e.key])

\* the listener of the constructor: fire { key } when the event is for this._id
Listener(f, e) ==
    IF e.extensionId = _id[f] THEN Append(fired[f], [key |-> e.key]) ELSE fired[f]

\* ExtHostSecretState fires onDidChangePassword: the listener of every
\* ExtensionSecrets runs
onDidChangePassword(e) ==
    /\ Len(events) < MaxEvents
    /\ events' = Append(events, e)
    /\ fired' = [f \in Facades |-> Listener(f, e)]
    /\ UNCHANGED <<spVars, secretState, requests>>

SecretsNext ==
    \/ \E f \in Facades, k \in SecretKeys : get(f, k)
    \/ \E f \in Facades, k \in SecretKeys, v \in SecretValues : set(f, k, v)
    \/ \E f \in Facades, k \in SecretKeys : delete(f, k)
    \/ \E x \in ExtensionIds, k \in SecretKeys :
           onDidChangePassword([extensionId |-> x, key |-> k])

SecretsSpec == Init /\ [][SecretsNext]_vars

\* ---- properties ----------------------------------------------------------

Pending(c) == calls[c].pc \in {"awaitIpc", "awaitReady"}

\* C1: createWindow() runs at most once and the window listeners are
\* registered at most once, whatever calls interleave; it has run only if
\* whenIpcReady was accessed and spawn() called, and once both have happened
\* it has run exactly once by the time the event loop delivers its next event.
C1_CreateWindowOnce ==
    /\ createCount <= 1
    /\ listenerRegs <= 1
    /\ host.veto <= 1
    /\ createCount = 1 => _whenIpcReady # "undefined" /\ spawns > 0
    /\ (_whenIpcReady # "undefined" /\ spawns > 0 /\ ~MicrotaskPending) => createCount = 1

\* two calls accessed whenIpcReady before spawn(), one of them a connect(),
\* and the window exists
C1_Witness ==
    /\ createCount = 1
    /\ listenerRegs = 1
    /\ \A c \in {1, 2} : calls[c].kind \in {"connect", "toggle"} /\ ~calls[c].gate
    /\ \E c \in {1, 2} : calls[c].kind = "connect"

\* C2: as long as spawn() has not been called there is no window, however
\* many connect(), toggle() and channel request calls are pending.
C2_NoWindowBeforeSpawn ==
    spawns = 0 => window = "undefined" /\ createCount = 0

\* before spawn(): a connect() and a toggle() wait on whenIpcReady
C2_Witness ==
    /\ spawns = 0
    /\ _whenIpcReady = "barrier"
    /\ \E c, d \in CallIds :
        /\ calls[c].kind = "connect" /\ Pending(c)
        /\ calls[d].kind \in {"toggle", "request"} /\ Pending(d)

\* C3: a connect() call has a port only after spawn() and after the
\* ipc-ready signal was observed; the channel request handler posts a result
\* only after, in addition, the init-done signal was observed.
C3_NoChannelBeforeReady ==
    /\ \A c \in CallIds : calls[c].port # 0 =>
            spawns > 0 /\ emitted # "none" /\ _whenIpcReady = "resolved"
    /\ \A m \in sent :
            /\ spawns > 0 /\ emitted = "init"
            /\ _whenIpcReady = "resolved" /\ _whenReady = "resolved"

\* a connect() made before spawn() has returned a port, and a request made
\* before any worker signal has been answered
C3_Witness ==
    /\ \E c \in CallIds : calls[c].kind = "connect" /\ calls[c].pc = "returned" /\ ~calls[c].gate
    /\ \E m \in sent : calls[m.nonce].sig = "none"

\* C4: once a channel request has been received by the
\* 'vscode:createSharedProcessMessageChannel' listener and spawn() has been
\* called, the window is eventually created, also when nothing calls
\* connect() or toggle().
C4_RequestCreatesHost ==
    ((\E c \in CallIds : calls[c].kind = "request") /\ spawns > 0) ~> (createCount > 0)

\* C5: a call made when the gate is open and the worker has already sent the
\* signals it needs (ipc-ready for connect(), init-done as well for a channel
\* request) never waits for a worker signal.
C5_NoWaitAfterSignals ==
    \A c \in CallIds :
        /\ (calls[c].kind = "connect" /\ calls[c].gate /\ calls[c].sig # "none")
              => ~(calls[c].pc = "awaitIpc" /\ ~IpcReadyAwaited)
        /\ (calls[c].kind = "request" /\ calls[c].gate /\ calls[c].sig = "init")
              => /\ ~(calls[c].pc = "awaitReady" /\ _whenReady # "resolved")
                 /\ ~(calls[c].pc = "awaitIpc" /\ ~IpcReadyAwaited)

\* the calls whose connect() has returned a port
Connected == {c \in CallIds : calls[c].port # 0}

\* C6: every connect() that returns creates a channel of its own: two calls
\* never hold the same port, and each call has put exactly one opposite end
\* into the window.
C6_FreshChannelPerConnect ==
    /\ \A c, d \in Connected : c # d => calls[c].port # calls[d].port
    /\ Len(host.ports) = Cardinality(Connected)
    /\ channels = Cardinality(Connected)
    /\ \A i, j \in 1..Len(host.ports) : i # j => host.ports[i] # host.ports[j]
    /\ \A c \in Connected : \E i \in 1..Len(host.ports) : host.ports[i] = calls[c].port

\* two connect() calls that waited together for ipc-ready have both returned
C6_Witness ==
    /\ \A c \in {1, 2} : calls[c].kind = "connect" /\ calls[c].pc = "returned"
                         /\ calls[c].sig = "none"
    /\ Len(host.ports) = 2

\* C7: when connect() resumes after whenIpcReady and the handle is undefined
\* or the webContents destroyed, it throws and creates or transfers no channel.
C7_ConnectFailsWhenUnavailable ==
    [][\A c \in CallIds :
         (/\ calls[c].kind \in {"connect", "request"}
          /\ calls[c].pc = "awaitIpc"
          /\ calls'[c].pc # "awaitIpc"
          /\ (window = "undefined" \/ host.destroyed))
         => /\ calls'[c].pc \in {"failed", "rejected"}
            /\ calls'[c].port = 0
            /\ channels' = channels
            /\ host'.ports = host.ports]_vars

\* a connect() has thrown on a window whose handle is still set but whose
\* webContents is destroyed
C7_Witness ==
    /\ \E c \in CallIds : calls[c].kind = "connect" /\ calls[c].pc = "failed"
    /\ window = "set"
    /\ host.destroyed

\* C8: when connect() throws inside the channel request listener, the sender
\* gets a result for its nonce that tells it the request failed.
C8_FailureSurfaced ==
    \A c \in CallIds :
        (calls[c].kind = "request" /\ calls[c].pc = "rejected")
            => \E m \in sent : m.nonce = c

\* C9: a connect() made after the deferred close tick has cleared the handle
\* ends with an error, and createWindow() does not run again.
C9_ConnectAfterTeardownFails ==
    /\ \A c \in CallIds :
         (calls[c].kind = "connect" /\ calls[c].torn) ~> (calls[c].pc = "failed")
    /\ [][cleared => createCount' = createCount]_vars

\* positions of the steps of the n-th onWillShutdown() in a log
StepsIn(l, e, n) == {i \in 1..Len(l) : l[i].ev = e /\ l[i].n = n}
Steps(e, n) == StepsIn(log, e, n)

\* C10: for each shutdown of a live window: the exit notification (sent only
\* when the webContents is not destroyed) comes before the removal of the
\* close listener, both come before the close() call, close() is called in a
\* later tick than onWillShutdown(), and no close() call finds the close
\* listener still registered.
C10_ShutdownOrder ==
    /\ [](\A n \in 1..shutdowns :
            /\ \A i \in Steps("exit", n), j \in Steps("unveto", n) : i < j
            /\ \A i \in Steps("exit", n) \cup Steps("unveto", n),
                  j \in Steps("close", n) \cup Steps("closeThrew", n) : i < j)
    /\ [](\A i \in 1..Len(log) : log[i].ev \in {"close", "closeThrew"} => log[i].veto = 0)
    /\ [][shutdowns' # shutdowns /\ window = "set" =>
            /\ (~host.destroyed <=> StepsIn(log', "exit", shutdowns') # {})
            /\ host'.exits = host.exits + (IF host.destroyed THEN 0 ELSE 1)
            /\ host'.veto = 0
            /\ host'.destroyed = host.destroyed
            /\ StepsIn(log', "close", shutdowns') \cup StepsIn(log', "closeThrew", shutdowns') = {}
            /\ timers' = Append(timers, shutdowns')]_vars

\* a shutdown of a live window has gone through all three steps and the
\* window is closed; a second shutdown found the webContents destroyed
C10_Witness ==
    /\ \E i, j, k \in 1..Len(log) :
         /\ i < j /\ j < k
         /\ log[i] = [ev |-> "exit", n |-> 1, veto |-> 1]
         /\ log[j] = [ev |-> "unveto", n |-> 1, veto |-> 0]
         /\ log[k] = [ev |-> "close", n |-> 1, veto |-> 0]
    /\ host.destroyed
    /\ host.exits = 1
    /\ shutdowns = 2
    /\ Len(timers) = 1
\* onWillShutdown() has run at least once while this.window was set
ShutdownStarted == timers # <<>> \/ cleared

\* C11: every run of the deferred close callback ends with this.window
\* undefined, whether window.close() threw or not and whatever calls are in
\* flight; once all callbacks have run after a shutdown with a window, the
\* handle is cleared and stays cleared.
C11_CloseTickClearsHandle ==
    /\ [][Len(timers') < Len(timers) =>
            /\ window' = "undefined"
            /\ cleared'
            /\ Len(log') = Len(log) + 1
            /\ log'[Len(log')].ev \in {"close", "closeThrew"}
            /\ calls' = calls]_vars
    /\ [](cleared => window = "undefined")
    /\ []((ShutdownStarted /\ timers = <<>>) => window = "undefined")

\* window.close() threw in the callback, the handle is cleared all the same,
\* and a connect() is still waiting
C11_Witness ==
    /\ \E i \in 1..Len(log) : log[i].ev = "closeThrew"
    /\ window = "undefined"
    /\ timers = <<>>
    /\ ~host.destroyed
    /\ \E c \in CallIds : calls[c].kind = "connect" /\ calls[c].pc = "awaitIpc"

\* C12: an onWillShutdown() that follows an onWillShutdown() for a live host
\* sends no other exit notification and schedules no other close call.
C12_SecondShutdownNoOp ==
    [][(shutdowns' # shutdowns /\ ShutdownStarted) =>
          /\ host'.exits = host.exits
          /\ timers' = timers
          /\ log' = log]_vars

\* C13: onWillShutdown() with no window ever created changes nothing: no
\* message, no timer, and gate, promises, handle and close listener as before.
C13_ShutdownWithoutHostNoOp ==
    [][(shutdowns' # shutdowns /\ createCount = 0) =>
          UNCHANGED <<opened, userEnv, window, windowCloseListener, _whenReady,
                      _whenIpcReady, host, emitted, calls, channels, sent, timers,
                      spawns, overlays, createCount, listenerRegs, cleared, log>>]_vars

\* onWillShutdown() has run before any window existed, with a connect()
\* waiting on whenIpcReady
C13_Witness ==
    /\ shutdowns > 0
    /\ ~ShutdownStarted
    /\ log = <<>>
    /\ createCount = 0
    /\ \E c \in CallIds : calls[c].kind = "connect" /\ Pending(c)
\* from the creation of the window until the first onWillShutdown() that sees
\* it: the close listener is registered and a close request is cancelled, the
\* window stays open, is hidden, and the handle stays set
VetoUntilShutdown ==
    /\ []((createCount > 0 /\ ~ShutdownStarted) =>
            /\ windowCloseListener
            /\ host.veto = 1
            /\ ~host.destroyed
            /\ window = "set")
    /\ [][(closeRequested /\ ~ShutdownStarted) =>
            /\ ~host'.destroyed
            /\ ~host'.visible
            /\ host'.veto = 1
            /\ window' = "set"]_vars

\* C14 as stated: the veto holds until shutdown, and the window is closed by
\* nothing but the close() call of the deferred callback of onWillShutdown().
C14_ClosedOnlyByShutdownClose ==
    /\ VetoUntilShutdown
    /\ [][(~host.destroyed /\ host'.destroyed) => Len(timers') < Len(timers)]_vars

\* C14 (amended): the veto holds until shutdown, and the window is closed
\* only after onWillShutdown() has removed the close listener: by the close()
\* call of the deferred callback or by a close request that arrives after
\* the removal.
C14_ClosedOnlyAfterVetoRemoved ==
    /\ VetoUntilShutdown
    /\ [][(~host.destroyed /\ host'.destroyed) =>
            /\ ShutdownStarted
            /\ host.veto = 0
            /\ ~windowCloseListener
            /\ (Len(timers') < Len(timers) \/ closeRequested)]_vars

\* before any shutdown a close request has hidden the window that toggle()
\* had shown (the developer tools stay open, the window is not destroyed)
C14_Witness ==
    /\ createCount = 1
    /\ shutdowns = 0
    /\ ~host.visible
    /\ host.devTools
    /\ ~host.destroyed
    /\ window = "set"

\* C15: once onWillShutdown() has run for a live window, no connect() creates
\* a channel, transfers a port into that window or returns a port.
C15_NoChannelOnStaleHandle ==
    [][ShutdownStarted =>
          /\ channels' = channels
          /\ host'.ports = host.ports
          /\ \A c \in CallIds : calls'[c].port = calls[c].port]_vars
\* the overlays of the spawn() calls made before createWindow() ran
Before == SelectSeq(overlays, LAMBDA o : ~o.created)

\* the overlays of the spawn() calls made after createWindow() ran
After == SelectSeq(overlays, LAMBDA o : o.created)

\* the calls among the first n of a sequence of overlays that mention key k
Mentions(os, k) == {i \in 1..Len(os) : k \in DOMAIN os[i].env}

\* the largest element of a non-empty set of numbers
Last(S) == CHOOSE i \in S : \A j \in S : j <= i

\* C16: the userEnv of the configuration built by createWindow() has, for
\* every key, the value of the last spawn() overlay before createWindow()
\* that mentions the key, and the constructor's value for a key that no such
\* overlay mentions.
C16_ConfigEnvLastOverlayWins ==
    createCount > 0 =>
        /\ DOMAIN host.config.userEnv = DOMAIN BaseEnv
        /\ \A k \in DOMAIN BaseEnv :
             host.config.userEnv[k] =
                IF Mentions(Before, k) = {}
                THEN BaseEnv[k]
                ELSE Before[Last(Mentions(Before, k))].env[k]

\* spawn({FOO: "1"}) then spawn({FOO: "2"}) before the window: FOO is "2"
C16_Witness ==
    /\ createCount = 1
    /\ Len(Before) = 2
    /\ Before[1].env = [FOO |-> "1"]
    /\ Before[2].env = [FOO |-> "2"]
    /\ host.config.userEnv = [FOO |-> "2", BAR |-> "0"]

\* C17 as stated: only the overlay of the spawn() that opened the gate is
\* in the configuration, whether a later spawn() comes before or after
\* createWindow().
C17_OnlyFirstOverlayInConfig ==
    createCount > 0 =>
        \A k \in DOMAIN BaseEnv :
            host.config.userEnv[k] =
                IF k \in DOMAIN overlays[1].env THEN overlays[1].env[k] ELSE BaseEnv[k]

\* C17 (amended): a spawn() made after createWindow() has run leaves the
\* configuration handed to the worker as it is, although this.userEnv takes
\* the overlay; the overlay of a later spawn() made before createWindow()
\* is in the configuration.
C17_OverlayAfterCreateNotInConfig ==
    /\ [][(spawns' # spawns /\ createCount > 0) =>
            /\ host'.config = host.config
            /\ userEnv' = Spread(userEnv, overlays'[Len(overlays')].env)]_vars
    /\ []((createCount > 0 /\ After = <<>>) => host.config.userEnv = userEnv)

\* spawn({FOO: "1"}), window created, then spawn({FOO: "2"}): the
\* configuration keeps FOO = "1"
C17_Witness ==
    /\ createCount = 1
    /\ Len(Before) = 1 /\ Before[1].env = [FOO |-> "1"]
    /\ Len(After) = 1 /\ After[1].env = [FOO |-> "2"]
    /\ host.config.userEnv.FOO = "1"
    /\ userEnv.FOO = "2"

\* C18: the barrier never closes once spawn() has opened it; a repeated
\* spawn() changes neither the barrier nor the creation of the window; and
\* every access of whenIpcReady, before or after the opening, gets past the
\* barrier once the barrier is open.
C18_GateOneShot ==
    /\ [][opened => opened']_vars
    /\ [](opened <=> spawns > 0)
    /\ [][(spawns' # spawns /\ opened) =>
            UNCHANGED <<opened, window, windowCloseListener, host, createCount,
                        listenerRegs, _whenIpcReady, _whenReady, calls>>]_vars
    /\ []((opened /\ _whenIpcReady # "undefined" /\ ~MicrotaskPending) =>
            _whenIpcReady \in {"ipc", "resolved"} /\ createCount = 1)

\* two spawn() calls, one window; an access from before the opening and one
\* from after it have both passed the barrier
C18_Witness ==
    /\ spawns = 2
    /\ createCount = 1
    /\ _whenIpcReady \in {"ipc", "resolved"}
    /\ \E c, d \in CallIds :
         /\ calls[c].kind # "none" /\ ~calls[c].gate
         /\ calls[d].kind \in {"connect", "toggle"} /\ calls[d].gate
\* C20: after onWillShutdown() has run, no window is created: not by a later
\* spawn(), connect(), toggle() or channel request either.
C20_NoHostAfterShutdown ==
    /\ [][shutdowns > 0 => createCount' = createCount]_vars
    /\ []((shutdowns > 0 /\ timers = <<>>) => window = "undefined")
\* the keys of the events for one extension id, in the order of the events
RECURSIVE KeysFor(_, _)
KeysFor(es, x) ==
    IF es = <<>> THEN <<>>
    ELSE IF Head(es).extensionId = x
         THEN <<[key |-> Head(es).key]>> \o KeysFor(Tail(es), x)
         ELSE KeysFor(Tail(es), x)

\* C19: every get, set and delete of a facade reaches ExtHostSecretState with
\* the facade's own id, so that passwords of other ids are neither read nor
\* changed; and the facade's onDidChange has fired exactly for the password
\* changes whose extensionId is its id, with the key of each, and for no other.
C19_SecretsConfinedToOwnId ==
    /\ \A i \in 1..Len(requests) :
         /\ requests[i].extensionId = _id[requests[i].facade]
         /\ requests[i].value # "other"
    /\ \A x \in ExtensionIds :
         (\A f \in Facades : _id[f] # x) => secretState[x] = StoredAtStart[x]
    /\ \A f \in Facades : fired[f] = KeysFor(events, _id[f])

\* a change under another extension's id and a change under f1's id have
\* happened: f1 has fired once, with the key of its own change, f2 never;
\* f1 has stored a password and f2 has read the same key
C19_Witness ==
    /\ events = <<[extensionId |-> "pub.c", key |-> "k1"],
                  [extensionId |-> "pub.a", key |-> "k2"]>>
    /\ fired["f1"] = <<[key |-> "k2"]>>
    /\ fired["f2"] = <<>>
    /\ Len(requests) = 2
    /\ requests[1].facade = "f1" /\ requests[1].op = "set" /\ requests[1].key = "k1"
    /\ requests[2].facade = "f2" /\ requests[2].op = "get" /\ requests[2].key = "k1"
    /\ requests[2].value = "undefined"
====
